---- MODULE Spec2Model ----
(***************************************************************************)
(* DevTasks server middleware: the authentication gate (protect), the role *)
(* gate (restrictTo), the resource-access gate (checkResourceAccess), the  *)
(* rate limiter (rateLimit), the validators (validateBody,                  *)
(* validateObjectId), the error handler (errorHandler) and the database    *)
(* handle the gates read (getDB).                                          *)
(*                                                                         *)
(* Every gate is an Express middleware: one invocation takes a request and *)
(* calls the continuation next() once, with an AppError or with nothing.   *)
(* The variable `last` holds the most recent invocation: its input and the *)
(* argument it gave to next().                                             *)
(***************************************************************************)
EXTENDS Integers, Sequences, FiniteSets, TLC

VARIABLES
    client,       \* database.ts `let client`: TRUE once a MongoClient was created
    db,           \* database.ts `let db`: TRUE once a Db handle was assigned
    connected,    \* lookups through the handle succeed (they reject otherwise)
    jwtSecret,    \* process.env.JWT_SECRET is set
    nodeEnv,      \* process.env.NODE_ENV
    schema,       \* validateBody(schema): the closure's rule set, with its RegExp objects
    users,        \* collection 'users':    _id -> document
    projects,     \* collection 'projects': _id -> document
    tasks,        \* collection 'tasks':    _id -> document
    windowMs,     \* rateLimit(windowMs, maxRequests): the closure's configuration
    maxRequests,
    clients,      \* rateLimit's Map: ip -> [count, resetTime]
    now,          \* Date.now()
    inflight,     \* requests accepted by the event loop: id -> [pc, ip]
    admitted,     \* history: per ip, next() calls without error since its bucket was created
    served,       \* history: per ip, invocations since its bucket was created
    req,          \* the request travelling through a route's middleware stack
    auth,         \* client: the state of authSlice
    dispatched,   \* history: the authSlice actions dispatched so far
    last          \* the most recent middleware invocation and its outcome

vars == <<client, db, connected, jwtSecret, nodeEnv, req, auth, dispatched, schema,
          users, projects, tasks,
          windowMs, maxRequests, clients, now, inflight, admitted, served, last>>

storeVars == <<users, projects, tasks>>
dbVars    == <<client, db, connected>>
clientVars == <<auth, dispatched>>
rateVars  == <<windowMs, maxRequests, clients, now, inflight, admitted, served>>

----------------------------------------------------------------------------
(* Identifiers.  An ObjectId is a 12-byte value; a path parameter is a     *)
(* string.  A path string is <<value, case>>: the 24 hex digits of `value` *)
(* written in lower or upper case, or "bad" for a string that is no        *)
(* ObjectId.  ObjectId.toString() writes lower case.                       *)

Null == 0

UserIds == {1, 2, 3, 4, 6}      \* _ids of the documents of 'users'; 5 is a deleted account

toLower == "lower"
toString(oid) == <<oid, toLower>>

\* new ObjectId(str) throws on a string that is not 24 hex digits
ObjectIdThrows(str) == str[2] = "bad"
ObjectId(str) == str[1]

----------------------------------------------------------------------------
(* errorHandler.ts: AppError *)

RECURSIVE firstDigit(_)
firstDigit(n) == IF n < 10 THEN n ELSE firstDigit(n \div 10)

\* `${statusCode}`.startsWith('4') ? 'fail' : 'error'
statusOf(statusCode) == IF firstDigit(statusCode) = 4 THEN "fail" ELSE "error"

AppErrorDefectOn5xx(message, statusCode) ==
    [message |-> message, statusCode |-> statusCode,
     status |-> statusOf(statusCode), isOperational |-> firstDigit(statusCode) = 4]
AppError(message, statusCode) ==
    [message |-> message, statusCode |-> statusCode,
     status |-> statusOf(statusCode), isOperational |-> TRUE]

\* `last` when no invocation is being observed
NoCall == [gate |-> "none"]

\* next() called with no argument
NoError == [message |-> "", statusCode |-> 0, status |-> "", isOperational |-> TRUE]

----------------------------------------------------------------------------
(* database.ts *)

\* getDB(): throws when `db` was never assigned
getDBThrows == ~db

\* getClient(): throws when `client` was never assigned
getClientThrows == ~client

\* a collection lookup (findOne) rejects when the connection is not usable
findOneThrows == ~connected

----------------------------------------------------------------------------
(* auth.ts: protect *)

NoToken == [kind |-> "none", userId |-> <<Null, "bad">>]

\* the JWTs a request may carry: correctly signed and current for a subject,
\* correctly signed but expired, wrongly signed, or not a JWT at all
ValidTokens == {[kind |-> "valid", userId |-> s] :
                   s \in {<<1, "lower">>, <<4, "lower">>, <<5, "lower">>,
                          <<6, "lower">>, <<4, "bad">>}}
Tokens == ValidTokens \cup
          {[kind |-> k, userId |-> <<4, "lower">>] : k \in {"expired", "badsig", "malformed"}}

\* req.headers.authorization: absent, another scheme, "Bearer" alone, "Bearer <token>"
NoHeader == [present |-> FALSE, scheme |-> "", token |-> NoToken]
Headers == {NoHeader}
           \cup {[present |-> TRUE, scheme |-> "Basic", token |-> t] : t \in ValidTokens}
           \cup {[present |-> TRUE, scheme |-> "Bearer", token |-> t] : t \in Tokens \cup {NoToken}}

\* lines 51-55: the token is the second word of a header that starts with 'Bearer'
extractToken(authorization) ==
    IF authorization.present /\ authorization.scheme = "Bearer"
    THEN authorization.token ELSE NoToken

\* jwt.verify(token, secret): the class of the error it throws, "" when it returns
jwtVerify(token) ==
    CASE token.kind = "valid"     -> ""
      [] token.kind = "expired"   -> "TokenExpiredError"
      [] token.kind = "badsig"    -> "JsonWebTokenError"
      [] OTHER                    -> "JsonWebTokenError"

\* `error instanceof cls`: jsonwebtoken derives TokenExpiredError (and
\* NotBeforeError) from JsonWebTokenError
instanceOf(errClass, cls) ==
    \/ errClass = cls
    \/ cls = "JsonWebTokenError" /\ errClass \in {"TokenExpiredError", "NotBeforeError"}

\* lines 88-96: the catch block
protectCatch(errClass) ==
    IF instanceOf(errClass, "JsonWebTokenError")
    THEN AppError("Invalid token. Please log in again.", 401)
    ELSE IF instanceOf(errClass, "TokenExpiredError")
    THEN AppError("Your token has expired. Please log in again.", 401)
    ELSE AppError("Authentication failed", 401)

\* line 80: if (!user.isActive)
userIsActiveAlways(user) == TRUE
userIsActive(user) == user.isActive

\* lines 49-87: the try block; `thrown` is the class of an exception leaving it
protectTry(authorization) ==
    LET token == extractToken(authorization)
        ret(e, u) == [thrown |-> "", err |-> e, user |-> u]
        throw(c)  == [thrown |-> c, err |-> NoError, user |-> Null]
    IN  IF token = NoToken
        THEN ret(AppError("You are not logged in! Please log in to get access.", 401), Null)
        ELSE IF ~jwtSecret
        THEN ret(AppError("JWT secret not configured", 500), Null)
        ELSE IF jwtVerify(token) # "" THEN throw(jwtVerify(token))
        ELSE IF getDBThrows THEN throw("Error")
        ELSE IF ObjectIdThrows(token.userId) THEN throw("BSONError")
        ELSE IF findOneThrows THEN throw("MongoError")
        ELSE IF ObjectId(token.userId) \notin DOMAIN users
        THEN ret(AppError("The user belonging to this token no longer exists.", 401), Null)
        ELSE IF ~userIsActive(users[ObjectId(token.userId)])
        THEN ret(AppError("Your account has been deactivated. Please contact support.", 401), Null)
        ELSE ret(NoError, ObjectId(token.userId))

\* the argument given to next() and the principal on req.user afterwards
protectOutcome(authorization) ==
    LET r == protectTry(authorization)
    IN  IF r.thrown # "" THEN [err |-> protectCatch(r.thrown), user |-> Null]
        ELSE [err |-> r.err, user |-> r.user]

\* one invocation of protect on a request that carries no principal yet
protect ==
    \E authorization \in Headers :
        /\ last = NoCall
        /\ last' = [gate |-> "protect", authorization |-> authorization,
                    secret |-> jwtSecret, db |-> db, connected |-> connected,
                    err |-> protectOutcome(authorization).err,
                    user |-> protectOutcome(authorization).user]
        /\ UNCHANGED <<dbVars, jwtSecret, nodeEnv, req, clientVars, schema, storeVars, rateVars>>

----------------------------------------------------------------------------
(* auth.ts: restrictTo *)

Roles == {"CEO", "PM", "APM", "ENGINEER"}

\* the principals a request may carry on req.user when a gate after protect
\* runs: none, or the document of a user
Principals == {Null, 1, 2, 3, 4}

\* roles.includes(req.user.role), with a variant that lets the executive through
rolesIncludeOrExecutive(roles, role) == role \in roles \/ role = "CEO"
rolesInclude(roles, role) == role \in roles

restrictToOutcome(roles, reqUser) ==
    IF reqUser = Null THEN AppError("User not authenticated", 401)
    ELSE IF ~rolesInclude(roles, users[reqUser].role)
    THEN AppError("You do not have permission to perform this action", 403)
    ELSE NoError

restrictTo ==
    \E roles \in SUBSET Roles, reqUser \in Principals :
        /\ last = NoCall
        /\ last' = [gate |-> "restrictTo", roles |-> roles, user |-> reqUser,
                    err |-> restrictToOutcome(roles, reqUser)]
        /\ UNCHANGED <<dbVars, jwtSecret, nodeEnv, req, clientVars, schema, storeVars, rateVars>>

----------------------------------------------------------------------------
(* auth.ts: checkResourceAccess *)

ResourceTypes == {"project", "task", "user"}

\* req.params.id, per resource type: strings of stored and of unknown ids, in
\* either case, and a string that is no ObjectId
PathIds(resourceType) ==
    LET values == CASE resourceType = "project" -> {11, 12}
                    [] resourceType = "task"    -> {21, 22}
                    [] OTHER                    -> {2, 3, 4, 5}
    IN  (values \X {"lower", "upper"}) \cup {<<Null, "bad">>}

\* a.equals(b) on ObjectIds; calling it on null or undefined is a TypeError
equalsThrows(a) == a = Null

\* lines 173-177: "T", "F", or "throw" for a TypeError while evaluating the chain
hasProjectAccess(project, userId) ==
    IF equalsThrows(project.pmId) THEN "throw"
    ELSE IF project.pmId = userId THEN "T"
    ELSE IF equalsThrows(project.apmId) THEN "throw"
    ELSE IF project.apmId = userId THEN "T"
    ELSE IF equalsThrows(project.teamLeadId) THEN "throw"
    ELSE IF project.teamLeadId = userId THEN "T"
    ELSE IF userId \in project.teamMembers THEN "T" ELSE "F"

\* lines 200-202: taskProject?.x.equals(user._id) with taskProject present
projectManages(taskProject, userId) ==
    IF equalsThrows(taskProject.pmId) THEN "throw"
    ELSE IF taskProject.pmId = userId THEN "T"
    ELSE IF equalsThrows(taskProject.apmId) THEN "throw"
    ELSE IF taskProject.apmId = userId THEN "T"
    ELSE IF equalsThrows(taskProject.teamLeadId) THEN "throw"
    ELSE IF taskProject.teamLeadId = userId THEN "T" ELSE "F"

\* lines 198-202: hasProject is FALSE when the parent lookup returned null,
\* and every taskProject?. chain is then undefined
hasTaskAccess(task, hasProject, userId) ==
    IF equalsThrows(task.assignedTo) THEN "throw"
    ELSE IF task.assignedTo = userId THEN "T"
    ELSE IF ~hasProject THEN "F"
    ELSE projectManages(projects[task.projectId], userId)

\* lines 225-227
hasUserAccessReportsToOnly(targetId, userId) ==
    IF users[targetId].reportsTo = userId THEN "T" ELSE "F"
hasUserAccess(targetId, userId) ==
    IF users[targetId].reportsTo # Null /\ users[targetId].reportsTo = userId THEN "T"
    ELSE IF targetId \in users[userId].directReports THEN "T" ELSE "F"

decide(access, denied) ==
    [thrown |-> access = "throw",
     err |-> IF access = "F" THEN denied ELSE NoError]

\* lines 162-233: the switch; `thrown` when an exception leaves it
checkSwitch(resourceType, userId, resourceId) ==
    LET ret(e) == [thrown |-> FALSE, err |-> e]
        throw  == [thrown |-> TRUE, err |-> NoError]
        oid    == ObjectId(resourceId)
    IN  CASE resourceType = "project" ->
               IF ObjectIdThrows(resourceId) \/ findOneThrows THEN throw
               ELSE IF oid \notin DOMAIN projects
               THEN ret(AppError("Project not found", 404))
               ELSE decide(hasProjectAccess(projects[oid], userId),
                           AppError("You do not have access to this project", 403))
          [] resourceType = "task" ->
               IF ObjectIdThrows(resourceId) \/ findOneThrows THEN throw
               ELSE IF oid \notin DOMAIN tasks
               THEN ret(AppError("Task not found", 404))
               ELSE decide(hasTaskAccess(tasks[oid],
                                         tasks[oid].projectId \in DOMAIN projects, userId),
                           AppError("You do not have access to this task", 403))
          [] OTHER ->
               IF resourceId = toString(userId) THEN ret(NoError)
               ELSE IF ObjectIdThrows(resourceId) \/ findOneThrows THEN throw
               ELSE IF oid \notin DOMAIN users
               THEN ret(AppError("User not found", 404))
               ELSE decide(hasUserAccess(oid, userId),
                           AppError("You do not have access to this user", 403))

\* lines 148-239: the argument given to next()
checkResourceAccessOutcome(resourceType, reqUser, resourceId) ==
    IF reqUser = Null THEN AppError("User not authenticated", 401)
    ELSE IF getDBThrows THEN AppError("Error checking resource access", 500)
    ELSE IF users[reqUser].role = "CEO" THEN NoError
    ELSE IF checkSwitch(resourceType, reqUser, resourceId).thrown
    THEN AppError("Error checking resource access", 500)
    ELSE checkSwitch(resourceType, reqUser, resourceId).err

checkResourceAccess ==
    \E resourceType \in ResourceTypes, reqUser \in Principals :
      \E resourceId \in PathIds(resourceType) :
        /\ last = NoCall
        /\ last' = [gate |-> "checkResourceAccess", resourceType |-> resourceType,
                    user |-> reqUser, id |-> resourceId,
                    db |-> db, connected |-> connected,
                    err |-> checkResourceAccessOutcome(resourceType, reqUser, resourceId)]
        /\ UNCHANGED <<dbVars, jwtSecret, nodeEnv, req, clientVars, schema, storeVars, rateVars>>

----------------------------------------------------------------------------
(* database.ts: connectDB, closeDB *)

\* connectDB: client.connect() may reject, the ping may reject (both rethrown),
\* createIndexes swallows its own failure
connectDB ==
    \E step \in {"connect fails", "ping fails", "indexes fail", "ok"} :
        /\ last = NoCall
        /\ client' = TRUE
        /\ db' = IF step = "connect fails" THEN db ELSE TRUE
        /\ connected' = CASE step = "connect fails" -> connected
                          [] step = "ping fails"    -> FALSE
                          [] OTHER                  -> TRUE
        /\ last' = [gate |-> "connectDB", thrown |-> step \in {"connect fails", "ping fails"}]
        /\ UNCHANGED <<jwtSecret, nodeEnv, req, clientVars, schema, storeVars, rateVars>>

\* closeDB: closes the client when there is one; `db` keeps its value
closeDB ==
    /\ last = NoCall
    /\ connected' = IF client THEN FALSE ELSE connected
    /\ last' = [gate |-> "closeDB", thrown |-> FALSE]
    /\ UNCHANGED <<client, db, jwtSecret, nodeEnv, req, clientVars, schema, storeVars, rateVars>>

----------------------------------------------------------------------------
(* validation.ts: rateLimit *)

MaxTime     == 2500     \* the clock stops here
Tick        == 500      \* the clock's step, in ms
MaxLimit    == 3        \* maxRequests ranges over 0..MaxLimit
NumRequests == 2        \* requests that can be in flight together
MsPerSecond == 1000

Windows  == {1000, 1500}
Requests == 1..NumRequests
\* req.ip: an address, or undefined (written "")
Ips == {"10.0.0.1", ""}

EmptyMap == [ip \in {} |-> [count |-> 0, resetTime |-> 0]]

\* line 181: req.ip || 'unknown'
clientIPOf(ip) == IF ip = "" THEN "unknown" ELSE ip

\* line 186: now > data.resetTime
isExpired(data, t) == t > data.resetTime

\* lines 185-189: the map without its expired entries
cleanUpNone(map, t) == map
cleanUp(map, t) == [ip \in {i \in DOMAIN map : ~isExpired(map[i], t)} |-> map[ip]]

\* line 199: clientData.count >= maxRequests
limitExceeded(count) == count > maxRequests
limitReached(count) == count >= maxRequests

\* Math.ceil(a / b) on integers, b > 0
ceilDiv(a, b) == -((-a) \div b)

\* line 201: the message of the 429 error
tooManyRequests(seconds) ==
    "Too many requests. Try again in " \o ToString(seconds) \o " seconds."

\* line 200
resetIn(data, t) == ceilDiv(data.resetTime - t, MsPerSecond)

\* lines 192-196: the entry of clientIP, or a new one
getOrCreate(map, clientIP, t) ==
    IF clientIP \in DOMAIN map THEN map[clientIP]
    ELSE [count |-> 0, resetTime |-> t + windowMs]

\* line 205: clientData.count++ on the entry held by the map, with a variant
\* that counts on a copy of it
incrementCopy(clientData) == clientData
increment(clientData) == [clientData EXCEPT !.count = @ + 1]

NoHeaders == [set |-> FALSE, limit |-> 0, remaining |-> 0, reset |-> 0]
\* lines 208-210: the X-RateLimit-* headers, from the bucket after line 205
setHeadersUncounted(clientData) ==
    [set |-> TRUE, limit |-> maxRequests,
     remaining |-> maxRequests - clientData.count + 1,
     reset |-> clientData.resetTime]
setHeaders(clientData) ==
    [set |-> TRUE, limit |-> maxRequests,
     remaining |-> maxRequests - clientData.count,
     reset |-> clientData.resetTime]

\* a request reaches the process; its handler has not run yet
Receive(r) ==
    \E ip \in Ips :
        /\ inflight[r].pc = "idle"
        /\ inflight' = [inflight EXCEPT ![r] = [pc |-> "rateLimit", ip |-> ip]]
        /\ last' = NoCall
        /\ UNCHANGED <<dbVars, jwtSecret, nodeEnv, req, clientVars, schema, storeVars, windowMs, maxRequests,
                       clients, now, admitted, served>>

\* lines 180-213: one invocation; the handler has no await, so it runs to its
\* end before any other request's handler starts
rateLimit(r) ==
    /\ inflight[r].pc = "rateLimit"
    /\ LET clientIP   == clientIPOf(inflight[r].ip)
           cleaned    == cleanUp(clients, now)
           existed    == clientIP \in DOMAIN cleaned
           clientData == getOrCreate(cleaned, clientIP, now)
           rejected   == limitReached(clientData.count)
           after      == IF rejected THEN clientData ELSE increment(clientData)
           keep(h)    == [ip \in {"10.0.0.1", "unknown"} |->
                             IF ip = clientIP
                             THEN (IF existed THEN h[ip] ELSE 0)
                             ELSE IF ip \in DOMAIN cleaned THEN h[ip] ELSE 0]
       IN  /\ clients' = (clientIP :> after) @@ cleaned
           /\ served' = [keep(served) EXCEPT
                            ![clientIP] = IF @ > maxRequests THEN @ ELSE @ + 1]
           /\ admitted' = [keep(admitted) EXCEPT
                              ![clientIP] = IF rejected THEN @ ELSE @ + 1]
           /\ inflight' = [inflight EXCEPT ![r] = [pc |-> "idle", ip |-> ""]]
           /\ last' = [gate |-> "rateLimit", ip |-> clientIP, now |-> now,
                       hadBefore |-> clientIP \in DOMAIN clients,
                       before |-> IF clientIP \in DOMAIN clients THEN clients[clientIP]
                                  ELSE [count |-> 0, resetTime |-> 0],
                       after |-> after,
                       ord |-> served'[clientIP],
                       concurrent |-> Cardinality({q \in Requests \ {r} :
                                          /\ inflight[q].pc = "rateLimit"
                                          /\ clientIPOf(inflight[q].ip) = clientIP}),
                       err |-> IF rejected
                               THEN AppError(tooManyRequests(resetIn(clientData, now)), 429)
                               ELSE NoError,
                       headers |-> IF rejected THEN NoHeaders ELSE setHeaders(after)]
    /\ UNCHANGED <<dbVars, jwtSecret, nodeEnv, req, clientVars, schema, storeVars, windowMs, maxRequests, now>>

\* Date.now() moves on
Advance ==
    /\ now + Tick <= MaxTime
    /\ now' = now + Tick
    /\ last' = NoCall
    /\ UNCHANGED <<dbVars, jwtSecret, nodeEnv, req, clientVars, schema, storeVars, windowMs, maxRequests,
                   clients, inflight, admitted, served>>

----------------------------------------------------------------------------
(* validation.ts: validateBody.  A JavaScript value is a record: its typeof *)
(* tag and its content.  A string is the sequence of its characters.        *)

Undefined == [t |-> "undefined", s |-> <<>>, n |-> 0, nan |-> FALSE, b |-> FALSE]
JsNull    == [t |-> "null",      s |-> <<>>, n |-> 0, nan |-> FALSE, b |-> FALSE]
NaN       == [t |-> "number",    s |-> <<>>, n |-> 0, nan |-> TRUE,  b |-> FALSE]
Str(s)    == [t |-> "string",    s |-> s,    n |-> 0, nan |-> FALSE, b |-> FALSE]
Num(n)    == [t |-> "number",    s |-> <<>>, n |-> n, nan |-> FALSE, b |-> FALSE]
Bool(b)   == [t |-> "boolean",   s |-> <<>>, n |-> 0, nan |-> FALSE, b |-> b]

\* the characters of a string, written out
RECURSIVE text(_)
text(s) == IF s = <<>> THEN "" ELSE s[1] \o text(Tail(s))

\* Array.prototype.join over strings
RECURSIVE join(_, _)
join(list, sep) ==
    IF list = <<>> THEN ""
    ELSE IF Len(list) = 1 THEN list[1]
    ELSE list[1] \o sep \o join(Tail(list), sep)

\* String(value), for the values a RegExp or Date.parse is given
stringOf(value) ==
    CASE value.t = "string"    -> value.s
      [] value.t = "undefined" -> <<"u","n","d","e","f","i","n","e","d">>
      [] value.t = "null"      -> <<"n","u","l","l">>
      [] value.t = "boolean"   -> IF value.b THEN <<"t","r","u","e">>
                                  ELSE <<"f","a","l","s","e">>
      [] value.nan             -> <<"N","a","N">>
      [] value.n < 0           -> <<"-", ToString(-value.n)>>
      [] OTHER                 -> <<ToString(value.n)>>

\* /^[^\s@]+@[^\s@]+\.[^\s@]+$/.test(value)
plainChar(c) == c \notin {" ", "@"}
allPlain(s, from, to) ==
    /\ from <= to
    /\ \A k \in from..to : plainChar(s[k])
emailRegexTest(value) ==
    LET s == stringOf(value)
    IN  \E i \in 1..Len(s) : \E j \in 1..Len(s) :
            /\ s[i] = "@" /\ s[j] = "." /\ i < j
            /\ allPlain(s, 1, i - 1)
            /\ allPlain(s, i + 1, j - 1)
            /\ allPlain(s, j + 1, Len(s))

\* isNaN(Date.parse(value)) is false for these strings (ISO 8601 dates)
IsoDate == <<"2","0","2","4","-","0","1","-","0","1">>
dateParses(value) == stringOf(value) = IsoDate

\* RegExp /^[a-z]+$/ or /^[a-z]+$/g : an object with a lastIndex
RegExpObj(global) == [global |-> global, lastIndex |-> 0]
LowerCase == {"a", "b", "c", "d"}
\* RegExp.prototype.test: a global RegExp starts matching at lastIndex, leaves
\* the end of the match in lastIndex, and resets it to 0 when nothing matches
testStart(re) == IF re.global THEN re.lastIndex ELSE 0
test(re, s) ==
    /\ testStart(re) = 0
    /\ Len(s) >= 1
    /\ \A k \in 1..Len(s) : s[k] \in LowerCase
afterTest(re, s) ==
    IF re.global
    THEN [re EXCEPT !.lastIndex = IF test(re, s) THEN Len(s) ELSE 0]
    ELSE re

\* an optional property of a rule: <<>> when not declared, <<v>> when declared
Declared(opt) == opt # <<>>
\* `rules.x && ...` on a numeric property: declared and not 0
Truthy(opt) == Declared(opt) /\ opt[1] # 0

\* lines 46 and 52: undefined, null and '' count as no value
isMissingFalsy(value) ==
    \/ value.t \in {"undefined", "null"}
    \/ value.t = "string" /\ value.s = <<>>
    \/ value.t = "number" /\ (value.nan \/ value.n = 0)
    \/ value.t = "boolean" /\ ~value.b
isMissing(value) ==
    \/ value.t \in {"undefined", "null"}
    \/ value.t = "string" /\ value.s = <<>>

\* lines 57-86: the type switch
typeErrors(field, rules, value) ==
    CASE rules.type = "string" /\ value.t # "string" ->
            <<field \o " must be a string">>
      [] rules.type = "number" /\ (value.t # "number" \/ value.nan) ->
            <<field \o " must be a number">>
      [] rules.type = "boolean" /\ value.t # "boolean" ->
            <<field \o " must be a boolean">>
      [] rules.type = "email" /\ ~emailRegexTest(value) ->
            <<field \o " must be a valid email address">>
      [] rules.type = "date" /\ ~dateParses(value) ->
            <<field \o " must be a valid date">>
      [] OTHER -> <<>>

\* lines 89-96: string length
lengthErrors(field, rules, value) ==
    IF value.t # "string" THEN <<>>
    ELSE (IF Truthy(rules.minLength) /\ Len(value.s) < rules.minLength[1]
          THEN <<field \o " must be at least " \o ToString(rules.minLength[1])
                       \o " characters long">>
          ELSE <<>>)
      \o (IF Truthy(rules.maxLength) /\ Len(value.s) > rules.maxLength[1]
          THEN <<field \o " must not exceed " \o ToString(rules.maxLength[1])
                       \o " characters">>
          ELSE <<>>)

\* lines 99-106: number range; every comparison with NaN is false
rangeErrors(field, rules, value) ==
    IF value.t # "number" THEN <<>>
    ELSE (IF Declared(rules.min) /\ ~value.nan /\ value.n < rules.min[1]
          THEN <<field \o " must be at least " \o ToString(rules.min[1])>>
          ELSE <<>>)
      \o (IF Declared(rules.max) /\ ~value.nan /\ value.n > rules.max[1]
          THEN <<field \o " must not exceed " \o ToString(rules.max[1])>>
          ELSE <<>>)

\* lines 109-111: rules.enum.includes(value), on an array of strings
includes(list, value) ==
    /\ value.t = "string"
    /\ \E k \in 1..Len(list) : list[k] = value.s
enumNames(list) == [k \in 1..Len(list) |-> text(list[k])]
enumErrors(field, rules, value) ==
    IF Declared(rules.enum) /\ ~includes(rules.enum[1], value)
    THEN <<field \o " must be one of: " \o join(enumNames(rules.enum[1]), ", ")>>
    ELSE <<>>

\* lines 114-116: the pattern, tested on strings only
patternTested(rules, value) == Declared(rules.pattern) /\ value.t = "string"
patternErrors(field, rules, value) ==
    IF patternTested(rules, value) /\ ~test(rules.pattern[1], value.s)
    THEN <<field \o " format is invalid">>
    ELSE <<>>

\* lines 42-117, one turn of the loop: the messages pushed for one field
fieldErrors(field, rules, value) ==
    IF rules.required /\ isMissing(value) THEN <<field \o " is required">>
    ELSE IF isMissing(value) THEN <<>>
    ELSE typeErrors(field, rules, value) \o lengthErrors(field, rules, value)
         \o rangeErrors(field, rules, value) \o enumErrors(field, rules, value)
         \o patternErrors(field, rules, value)

\* one turn of the loop: the rule's RegExp after it
rulesAfter(rules, value) ==
    IF ~isMissing(value) /\ patternTested(rules, value)
    THEN [rules EXCEPT !.pattern = <<afterTest(rules.pattern[1], value.s)>>]
    ELSE rules

\* the loop over Object.entries(schema), in declaration order
RECURSIVE collect(_, _)
collect(entries, body) ==
    IF entries = <<>> THEN <<>>
    ELSE fieldErrors(entries[1].field, entries[1].rules, body[entries[1].field])
         \o collect(Tail(entries), body)
schemaAfter(entries, body) ==
    [k \in 1..Len(entries) |->
        [entries[k] EXCEPT !.rules = rulesAfter(@, body[entries[k].field])]]

\* lines 119-124
someViolation(errors) == Len(errors) > 1
anyViolation(errors) == Len(errors) > 0
validateBodyOutcome(errors) ==
    IF anyViolation(errors)
    THEN AppError("Validation failed: " \o join(errors, "; "), 400)
    ELSE NoError

\* the values a request body holds for a field
Strings == {<<>>, <<"a","b">>, <<"a","b","c","d">>,
            <<"a","@","b",".","c","o">>, IsoDate}
Values == {Undefined, JsNull, NaN, Bool(TRUE), Bool(FALSE)}
          \cup {Str(s) : s \in Strings} \cup {Num(n) : n \in {0, 5, -3}}
Bodies == [name : Values, age : {Undefined, Num(5), Num(-3)}]
\* Date.parse of a text that is no ISO date is left to the engine: a 'date'
\* rule is given strings only
Enumerated(entries, body) ==
    \A k \in 1..Len(entries) :
        entries[k].rules.type = "date" =>
            \/ isMissing(body[entries[k].field])
            \/ /\ body[entries[k].field].t = "string"
               /\ body[entries[k].field].s \in {IsoDate, <<"a","b">>, <<"a","b","c","d">>}

validateBody ==
    /\ last = NoCall
    /\ \E body \in Bodies :
        /\ Enumerated(schema, body)
        /\ LET errors == collect(schema, body)
           IN  /\ schema' = schemaAfter(schema, body)
               /\ last' = [gate   |-> "validateBody",
                           body   |-> body,
                           schema |-> schema,
                           errors |-> errors,
                           perField |-> [k \in 1..Len(schema) |->
                               fieldErrors(schema[k].field, schema[k].rules,
                                           body[schema[k].field])],
                           err    |-> validateBodyOutcome(errors)]
        /\ UNCHANGED <<dbVars, jwtSecret, nodeEnv, req, clientVars, storeVars, rateVars>>

----------------------------------------------------------------------------
(* validation.ts: validateObjectId *)

ObjectIdLength == 24
HexDigits == {"0","1","2","3","4","5","6","7","8","9",
              "a","b","c","d","e","f","A","B","C","D","E","F"}

\* /^[0-9a-fA-F]{24}$/.test(id)
anyLengthHex(id) ==
    \A k \in 1..Len(stringOf(id)) : stringOf(id)[k] \in HexDigits
objectIdRegexTest(id) ==
    /\ Len(stringOf(id)) = ObjectIdLength
    /\ \A k \in 1..Len(stringOf(id)) : stringOf(id)[k] \in HexDigits

validateObjectIdOutcome(paramName, id) ==
    IF ~objectIdRegexTest(id)
    THEN AppError("Invalid " \o paramName \o " format", 400)
    ELSE NoError

\* path parameters: n times the character c
RECURSIVE repeat(_, _)
repeat(c, n) == IF n = 0 THEN <<>> ELSE <<c>> \o repeat(c, n - 1)
ParamNames == {"id", "projectId"}
ParamValues ==
    {Undefined, Str(<<>>)}
    \cup {Str(repeat(c, n)) : c \in {"a", "F", "7"},
                              n \in {ObjectIdLength - 1, ObjectIdLength, ObjectIdLength + 1}}
    \cup {Str(repeat("0", 8) \o repeat("b", 8) \o repeat("E", 8))}
    \cup {Str(repeat("a", k) \o <<c>> \o repeat("a", ObjectIdLength - 1 - k)) :
              k \in {0, 11, ObjectIdLength - 1}, c \in {"g", "-", " "}}

validateObjectId ==
    /\ last = NoCall
    /\ \E paramName \in ParamNames : \E id \in ParamValues :
        last' = [gate      |-> "validateObjectId",
                 paramName |-> paramName,
                 id        |-> id,
                 err       |-> validateObjectIdOutcome(paramName, id)]
    /\ UNCHANGED <<dbVars, jwtSecret, nodeEnv, req, clientVars, schema, storeVars, rateVars>>

----------------------------------------------------------------------------
(* errorHandler.ts: errorHandler.  An error object is a record of the       *)
(* properties the handler reads; a property that is not set reads as 0, ""  *)
(* or FALSE.                                                                *)

DuplicateKeyCode == 11000

\* lines 84-91
handleDuplicateKeyConflict(err) ==
    AppError(err.keyValue.field \o " '" \o err.keyValue.value
                 \o "' already exists. Please choose another value.", 409)
handleDuplicateKeyError(err) ==
    AppError(err.keyValue.field \o " '" \o err.keyValue.value
                 \o "' already exists. Please choose another value.", 400)
\* lines 94-98
handleValidationError(err) ==
    AppError("Invalid input data. " \o join(err.errors, ". "), 400)
\* lines 101-107
handleJWTError == AppError("Invalid token. Please log in again.", 401)
handleJWTExpiredError == AppError("Your token has expired. Please log in again.", 401)

\* lines 126-127: the defaults written into err
withDefaults(err) ==
    [err EXCEPT !.statusCode = IF @ = 0 THEN 500 ELSE @,
                !.status     = IF @ = "" THEN "error" ELSE @]

\* lines 134-141: the copy and the known patterns, each test on err itself
spread(err) ==
    [message |-> err.message, statusCode |-> err.statusCode,
     status |-> err.status, isOperational |-> err.isOperational]
matchKnown(err) ==
    LET e0 == spread(err)
        e1 == IF err.code = DuplicateKeyCode THEN handleDuplicateKeyError(err) ELSE e0
        e2 == IF err.name = "ValidationError" THEN handleValidationError(err) ELSE e1
        e3 == IF err.name = "JsonWebTokenError" THEN handleJWTError ELSE e2
    IN  IF err.name = "TokenExpiredError" THEN handleJWTExpiredError ELSE e3

\* lines 38-46: the response of sendErrorDev; nothing is written to the console
sendErrorDevLogging(err) ==
    [response |-> [statusCode |-> err.statusCode, status |-> err.status,
                   message |-> err.message, detail |-> TRUE],
     logged   |-> ~err.isOperational]
sendErrorDev(err) ==
    [response |-> [statusCode |-> err.statusCode, status |-> err.status,
                   message |-> err.message, detail |-> TRUE],
     logged   |-> FALSE]

\* lines 49-67: the response of sendErrorProd, and whether console.error ran
sendErrorProdAlways(err) ==
    [response |-> [statusCode |-> err.statusCode, status |-> err.status,
                   message |-> err.message, detail |-> FALSE],
     logged   |-> ~err.isOperational]
sendErrorProd(err) ==
    IF err.isOperational
    THEN [response |-> [statusCode |-> err.statusCode, status |-> err.status,
                        message |-> err.message, detail |-> FALSE],
          logged   |-> FALSE]
    ELSE [response |-> [statusCode |-> 500, status |-> "error",
                        message |-> "Something went wrong!", detail |-> FALSE],
          logged   |-> TRUE]

\* lines 119-145
errorHandlerOutcome(err, env) ==
    IF env = "development" THEN sendErrorDev(withDefaults(err))
    ELSE sendErrorProd(matchKnown(withDefaults(err)))

\* the errors given to next(err): AppErrors, and errors thrown by libraries
NodeEnvs == {"development", "production", "test"}
ErrorNames == {"Error", "MongoServerError", "ValidationError",
               "JsonWebTokenError", "TokenExpiredError"}
KeyValues == {[field |-> "email", value |-> "a@b.co"],
              [field |-> "username", value |-> "bob"]}
Messages == {"connect ECONNREFUSED 127.0.0.1:27017",
             "Error checking resource access"}
Errors ==
    [name : ErrorNames, code : {0, DuplicateKeyCode}, keyValue : KeyValues,
     errors : {<<"title is required", "status is invalid">>},
     message : Messages, statusCode : {0, 400, 404, 500},
     status : {"", "fail", "error"}, isOperational : BOOLEAN]

errorHandler ==
    /\ last = NoCall
    /\ \E err \in Errors :
        last' = [gate     |-> "errorHandler",
                 err      |-> err,
                 env      |-> nodeEnv,
                 response |-> errorHandlerOutcome(err, nodeEnv).response,
                 logged   |-> errorHandlerOutcome(err, nodeEnv).logged]
    /\ UNCHANGED <<dbVars, jwtSecret, nodeEnv, req, clientVars, schema, storeVars, rateVars>>

----------------------------------------------------------------------------
(* A request in a route's middleware stack (part_002: the app's stack ends  *)
(* with notFound and errorHandler).  next() hands the request to the next   *)
(* middleware of the stack, next(err) to the error handler.  `trace` holds  *)
(* one entry for every call of next.                                        *)

NoResponse == [statusCode |-> 0, status |-> "", message |-> "", detail |-> FALSE]
NoRequest ==
    [stage |-> "idle", route |-> <<>>, pos |-> 0, url |-> "", ip |-> "",
     authorization |-> NoHeader, id |-> <<Null, "bad">>,
     body |-> [name |-> Undefined, age |-> Undefined],
     user |-> Null, trace |-> <<>>, err |-> NoError, response |-> NoResponse]

\* the stacks of the routes, each followed by the business handler
Routes == {<<"rateLimit", "protect", "restrictTo", "validateBody">>,
           <<"rateLimit", "protect", "checkResourceAccess", "validateBody">>,
           <<"rateLimit", "validateObjectId", "protect", "checkResourceAccess">>,
           <<"notFound">>}
RouteRoles == {"CEO", "PM"}
originalUrl(route) == IF route = <<"notFound">> THEN "/api/nowhere" ELSE "/api/projects"

\* req.params.id as text: 24 hexadecimal digits in one case, or no ObjectId
pathText(id) ==
    CASE id[2] = "lower" -> Str(repeat("a", ObjectIdLength))
      [] id[2] = "upper" -> Str(repeat("A", ObjectIdLength))
      [] OTHER           -> Str(<<"b", "a", "d">>)

\* the middleware at r.stage calls next(err), or next() when err is NoError
callNextSwallows(r, err) ==
    LET called == [r EXCEPT !.trace = Append(@, [gate |-> r.stage, err |-> err])]
    IN  IF r.pos < Len(r.route)
        THEN [called EXCEPT !.stage = r.route[r.pos + 1], !.pos = r.pos + 1]
        ELSE [called EXCEPT !.stage = "handler"]
callNext(r, err) ==
    LET called == [r EXCEPT !.trace = Append(@, [gate |-> r.stage, err |-> err])]
    IN  IF err # NoError THEN [called EXCEPT !.stage = "errorHandler", !.err = err]
        ELSE IF r.pos < Len(r.route)
        THEN [called EXCEPT !.stage = r.route[r.pos + 1], !.pos = r.pos + 1]
        ELSE [called EXCEPT !.stage = "handler"]

\* a request arrives and enters the first middleware of its route
Arrive ==
    /\ req.stage = "idle"
    /\ \E route \in Routes, ip \in Ips, authorization \in Headers :
       \E id \in PathIds("project"), name \in {Undefined, Str(<<"a", "b">>), Num(0)} :
           req' = [NoRequest EXCEPT !.stage = route[1], !.route = route, !.pos = 1,
                                    !.url = originalUrl(route), !.ip = ip,
                                    !.authorization = authorization, !.id = id,
                                    !.body = [name |-> name, age |-> Undefined]]
    /\ UNCHANGED <<dbVars, jwtSecret, nodeEnv, clientVars, schema, storeVars, rateVars, last>>

\* validation.ts 180-213 on the request
runRateLimit ==
    /\ req.stage = "rateLimit"
    /\ LET clientIP   == clientIPOf(req.ip)
           cleaned    == cleanUp(clients, now)
           clientData == getOrCreate(cleaned, clientIP, now)
           rejected   == limitReached(clientData.count)
           after      == IF rejected THEN clientData ELSE increment(clientData)
       IN  /\ clients' = (clientIP :> after) @@ cleaned
           /\ req' = callNext(req, IF rejected
                                   THEN AppError(tooManyRequests(resetIn(clientData, now)), 429)
                                   ELSE NoError)
    /\ UNCHANGED <<dbVars, jwtSecret, nodeEnv, clientVars, schema, storeVars,
                   windowMs, maxRequests, now, inflight, admitted, served, last>>

\* auth.ts 44-97 on the request: req.user is set before next()
runProtect ==
    /\ req.stage = "protect"
    /\ req' = callNext([req EXCEPT !.user = protectOutcome(req.authorization).user],
                       protectOutcome(req.authorization).err)
    /\ UNCHANGED <<dbVars, jwtSecret, nodeEnv, clientVars, schema, storeVars, rateVars, last>>

\* auth.ts 117-129
runRestrictTo ==
    /\ req.stage = "restrictTo"
    /\ req' = callNext(req, restrictToOutcome(RouteRoles, req.user))
    /\ UNCHANGED <<dbVars, jwtSecret, nodeEnv, clientVars, schema, storeVars, rateVars, last>>

\* auth.ts 146-241
runCheckResourceAccess ==
    /\ req.stage = "checkResourceAccess"
    /\ req' = callNext(req, checkResourceAccessOutcome("project", req.user, req.id))
    /\ UNCHANGED <<dbVars, jwtSecret, nodeEnv, clientVars, schema, storeVars, rateVars, last>>

\* validation.ts 37-126
runValidateBody ==
    /\ req.stage = "validateBody"
    /\ schema' = schemaAfter(schema, req.body)
    /\ req' = callNext(req, validateBodyOutcome(collect(schema, req.body)))
    /\ UNCHANGED <<dbVars, jwtSecret, nodeEnv, clientVars, storeVars, rateVars, last>>

\* validation.ts 147-160
runValidateObjectId ==
    /\ req.stage = "validateObjectId"
    /\ req' = callNext(req, validateObjectIdOutcome("id", pathText(req.id)))
    /\ UNCHANGED <<dbVars, jwtSecret, nodeEnv, clientVars, schema, storeVars, rateVars, last>>

\* auth.ts 262-265
notFoundOutcome(url) == AppError("Route " \o url \o " not found", 404)
runNotFound ==
    /\ req.stage = "notFound"
    /\ req' = callNext(req, notFoundOutcome(req.url))
    /\ UNCHANGED <<dbVars, jwtSecret, nodeEnv, clientVars, schema, storeVars, rateVars, last>>

\* the error object that reaches errorHandler when a gate calls next(err)
Thrown(err) ==
    [name |-> "Error", code |-> 0, keyValue |-> [field |-> "", value |-> ""],
     errors |-> <<>>, message |-> err.message, statusCode |-> err.statusCode,
     status |-> err.status, isOperational |-> err.isOperational]

\* errorHandler.ts 119-145: the response to the error given to next
runErrorHandler ==
    /\ req.stage = "errorHandler"
    /\ req' = [req EXCEPT !.stage = "sent",
                          !.response = errorHandlerOutcome(Thrown(req.err), nodeEnv).response]
    /\ UNCHANGED <<dbVars, jwtSecret, nodeEnv, clientVars, schema, storeVars, rateVars, last>>

\* the business handler of the route answers
runHandler ==
    /\ req.stage = "handler"
    /\ req' = [req EXCEPT !.stage = "sent",
                          !.response = [statusCode |-> 200, status |-> "success",
                                        message |-> "", detail |-> FALSE]]
    /\ UNCHANGED <<dbVars, jwtSecret, nodeEnv, clientVars, schema, storeVars, rateVars, last>>

\* the response is on the wire
Finish ==
    /\ req.stage = "sent"
    /\ req' = NoRequest
    /\ UNCHANGED <<dbVars, jwtSecret, nodeEnv, clientVars, schema, storeVars, rateVars, last>>

----------------------------------------------------------------------------
(* client authSlice.ts.  error: string | null is <<>> for null and <<s>>    *)
(* for the string s; user: User | null is Null or the user's id.            *)

MaxActions == 4

\* lines 13-18
initialState ==
    [user |-> Null, isAuthenticated |-> FALSE, loading |-> FALSE, error |-> <<>>]

\* lines 26-29
reduceLoginStart(state) ==
    [state EXCEPT !.loading = TRUE, !.error = <<>>]
\* lines 32-37
reduceLoginSuccess(state, payload) ==
    [state EXCEPT !.loading = FALSE, !.isAuthenticated = TRUE,
                  !.user = payload, !.error = <<>>]
\* lines 40-45
reduceLoginFailure(state, payload) ==
    [state EXCEPT !.loading = FALSE, !.isAuthenticated = FALSE,
                  !.user = Null, !.error = <<payload>>]
\* lines 48-52
reduceLogoutKeepsFlag(state) ==
    [state EXCEPT !.user = Null, !.error = <<>>]
reduceLogout(state) ==
    [state EXCEPT !.user = Null, !.isAuthenticated = FALSE, !.error = <<>>]

\* the payloads of loginSuccess and loginFailure
PayloadUsers == {1, 4}
PayloadMessages == {"Invalid credentials", ""}

\* store.dispatch(action): the reducer runs, the history grows
dispatch(type, user, message, state) ==
    /\ Len(dispatched) < MaxActions
    /\ auth' = state
    /\ dispatched' = Append(dispatched, [type |-> type, user |-> user, message |-> message])
    /\ UNCHANGED <<dbVars, jwtSecret, nodeEnv, req, schema, storeVars, rateVars, last>>

loginStart == dispatch("loginStart", Null, "", reduceLoginStart(auth))
loginSuccess ==
    \E payload \in PayloadUsers :
        dispatch("loginSuccess", payload, "", reduceLoginSuccess(auth, payload))
loginFailure ==
    \E payload \in PayloadMessages :
        dispatch("loginFailure", Null, payload, reduceLoginFailure(auth, payload))
logout == dispatch("logout", Null, "", reduceLogout(auth))

----------------------------------------------------------------------------
(* Initial states *)

UserDocs(reportsTo4, directReports3) ==
    [i \in UserIds |->
        CASE i = 1 -> [role |-> "CEO", isActive |-> TRUE, reportsTo |-> Null,
                       directReports |-> {2}]
          [] i = 2 -> [role |-> "PM", isActive |-> TRUE, reportsTo |-> 1,
                       directReports |-> {3}]
          [] i = 3 -> [role |-> "APM", isActive |-> TRUE, reportsTo |-> 2,
                       directReports |-> directReports3]
          [] i = 4 -> [role |-> "ENGINEER", isActive |-> TRUE, reportsTo |-> reportsTo4,
                       directReports |-> {}]
          [] OTHER -> [role |-> "ENGINEER", isActive |-> FALSE, reportsTo |-> Null,
                       directReports |-> {}]]

UserStores == {UserDocs(r, d) : r \in {Null, 3}, d \in {{}, {4}}}

\* project 11 with its optional apmId / teamLeadId set or not, or no project
ProjectDocs == [pmId : {2}, apmId : {Null, 3}, teamLeadId : {Null, 3, 4},
                teamMembers : {{}, {4}}]
ProjectStores == {[i \in {} |-> 0]} \cup {[i \in {11} |-> p] : p \in ProjectDocs}

TaskDocs == [projectId : {11}, assignedTo : {3, 4}]
TaskStores == {[i \in {} |-> 0]} \cup {[i \in {21} |-> t] : t \in TaskDocs}

InitRate ==
    /\ clients = EmptyMap
    /\ now = 0
    /\ inflight = [r \in Requests |-> [pc |-> "idle", ip |-> ""]]
    /\ admitted = [ip \in {"10.0.0.1", "unknown"} |-> 0]
    /\ served = [ip \in {"10.0.0.1", "unknown"} |-> 0]

\* the process after module load: no connection yet, an environment, a store
Init ==
    /\ client = FALSE /\ db = FALSE /\ connected = FALSE
    /\ jwtSecret \in BOOLEAN
    /\ nodeEnv = "development"
    /\ req = NoRequest
    /\ auth = initialState /\ dispatched = <<>>
    /\ schema = <<>>
    /\ users \in UserStores
    /\ projects \in ProjectStores
    /\ tasks \in TaskStores
    /\ windowMs = 1000 /\ maxRequests = 1
    /\ InitRate
    /\ last = NoCall

\* the observed invocation is over: its response was sent
done ==
    /\ last # NoCall
    /\ last' = NoCall
    /\ UNCHANGED <<dbVars, jwtSecret, nodeEnv, req, clientVars, schema, storeVars, rateVars>>

Next ==
    \/ done
    \/ protect
    \/ restrictTo
    \/ checkResourceAccess
    \/ connectDB
    \/ closeDB

Spec == Init /\ [][Next]_vars

\* the rate limiter as constructed by rateLimit(windowMs, maxRequests)
InitRL ==
    /\ client = FALSE /\ db = FALSE /\ connected = FALSE
    /\ jwtSecret = TRUE
    /\ nodeEnv = "development"
    /\ req = NoRequest
    /\ auth = initialState /\ dispatched = <<>>
    /\ schema = <<>>
    /\ users = UserDocs(3, {4})
    /\ projects = [i \in {} |-> 0]
    /\ tasks = [i \in {} |-> 0]
    /\ windowMs \in Windows
    /\ maxRequests \in 0..MaxLimit
    /\ InitRate
    /\ last = NoCall

NextRL ==
    \/ \E r \in Requests : Receive(r)
    \/ \E r \in Requests : rateLimit(r)
    \/ Advance

SpecRL == InitRL /\ [][NextRL]_vars

\* the rule sets given to validateBody: a field 'name' under every rule of
\* NameRules, alone or followed by a field 'age'
NoRules == [required |-> FALSE, type |-> "", minLength |-> <<>>, maxLength |-> <<>>,
            min |-> <<>>, max |-> <<>>, enum |-> <<>>, pattern |-> <<>>]
Types == {"", "string", "number", "boolean", "email", "date"}
StringRules ==
    [required : BOOLEAN, type : Types,
     minLength : {<<>>, <<0>>, <<3>>}, maxLength : {<<>>, <<0>>, <<3>>},
     min : {<<>>}, max : {<<>>},
     enum : {<<>>, << <<(<<"a","b">>), (<<"c","d">>)>> >>},
     pattern : {<<>>, <<RegExpObj(FALSE)>>, <<RegExpObj(TRUE)>>}]
NumberRules ==
    [required : BOOLEAN, type : Types,
     minLength : {<<>>}, maxLength : {<<>>},
     min : {<<>>, <<0>>, <<3>>}, max : {<<>>, <<0>>, <<-1>>},
     enum : {<<>>}, pattern : {<<>>}]
NameRules == StringRules \cup NumberRules
AgeRules == {[NoRules EXCEPT !.required = TRUE],
             [NoRules EXCEPT !.type = "number", !.min = <<0>>]}
Schemas ==
    {<<[field |-> "name", rules |-> r]>> : r \in NameRules}
    \cup {<<[field |-> "name", rules |-> r], [field |-> "age", rules |-> a]>> :
              r \in NameRules, a \in AgeRules}

\* the validators as constructed by validateBody(schema), validateObjectId(paramName)
InitV ==
    /\ client = FALSE /\ db = FALSE /\ connected = FALSE
    /\ jwtSecret = TRUE
    /\ nodeEnv = "development"
    /\ req = NoRequest
    /\ auth = initialState /\ dispatched = <<>>
    /\ schema \in Schemas
    /\ users = UserDocs(3, {4})
    /\ projects = [i \in {} |-> 0]
    /\ tasks = [i \in {} |-> 0]
    /\ windowMs = 1000 /\ maxRequests = 1
    /\ InitRate
    /\ last = NoCall

NextV ==
    \/ done
    \/ validateBody
    \/ validateObjectId

SpecV == InitV /\ [][NextV]_vars

\* the error handler, under each NODE_ENV
InitEH ==
    /\ client = FALSE /\ db = FALSE /\ connected = FALSE
    /\ jwtSecret = TRUE
    /\ nodeEnv \in NodeEnvs
    /\ req = NoRequest
    /\ auth = initialState /\ dispatched = <<>>
    /\ schema = <<>>
    /\ users = UserDocs(3, {4})
    /\ projects = [i \in {} |-> 0]
    /\ tasks = [i \in {} |-> 0]
    /\ windowMs = 1000 /\ maxRequests = 1
    /\ InitRate
    /\ last = NoCall

NextEH ==
    \/ done
    \/ errorHandler

SpecEH == InitEH /\ [][NextEH]_vars

\* the client's store after configureStore
InitA ==
    /\ client = FALSE /\ db = FALSE /\ connected = FALSE
    /\ jwtSecret = TRUE
    /\ nodeEnv = "development"
    /\ req = NoRequest
    /\ auth = initialState /\ dispatched = <<>>
    /\ schema = <<>>
    /\ users = UserDocs(3, {4})
    /\ projects = [i \in {} |-> 0]
    /\ tasks = [i \in {} |-> 0]
    /\ windowMs = 1000 /\ maxRequests = 1
    /\ InitRate
    /\ last = NoCall

NextA ==
    \/ loginStart
    \/ loginSuccess
    \/ loginFailure
    \/ logout

SpecA == InitA /\ [][NextA]_vars

\* the server after start-up (part_002: connectDB, then listen), its routes
PipelineSchemas ==
    {<<[field |-> "name", rules |-> [NoRules EXCEPT !.required = TRUE, !.type = "string"]]>>,
     <<[field |-> "name", rules |-> [NoRules EXCEPT !.pattern = <<RegExpObj(TRUE)>>]]>>}
InitP ==
    /\ client = TRUE /\ db = TRUE /\ connected = TRUE
    /\ jwtSecret = TRUE
    /\ nodeEnv \in {"development", "production"}
    /\ req = NoRequest
    /\ auth = initialState /\ dispatched = <<>>
    /\ schema \in PipelineSchemas
    /\ users = UserDocs(3, {4})
    /\ projects = [i \in {11} |-> [pmId |-> 2, apmId |-> 3, teamLeadId |-> 4,
                                    teamMembers |-> {4}]]
    /\ tasks = [i \in {} |-> 0]
    /\ windowMs = 1000 /\ maxRequests = 2
    /\ InitRate
    /\ last = NoCall

NextP ==
    \/ Arrive
    \/ runRateLimit
    \/ runProtect
    \/ runRestrictTo
    \/ runCheckResourceAccess
    \/ runValidateBody
    \/ runValidateObjectId
    \/ runNotFound
    \/ runErrorHandler
    \/ runHandler
    \/ Finish

SpecP == InitP /\ [][NextP]_vars

----------------------------------------------------------------------------
(* The resource-access gate *)

\* the observed call is checkResourceAccess(resourceType) for a principal
\* whose role is not CEO
NonExecutiveCall(resourceType) ==
    /\ last.gate = "checkResourceAccess"
    /\ last.resourceType = resourceType
    /\ last.user # Null
    /\ users[last.user].role # "CEO"

\* the handle exists, lookups answer, and the path string is an ObjectId
LookupsAnswer == last.db /\ last.connected /\ ~ObjectIdThrows(last.id)

Granted    == last.err = NoError
Failed(sc) == last.err.statusCode = sc

\* C1: checkResourceAccess('project'), non-executive principal, any project
\* document (apmId or teamLeadId possibly unset): 404 when no project has the
\* path id; otherwise granted exactly when the principal is pmId, apmId,
\* teamLeadId or in teamMembers, and 403 in every other case.
C1_ProjectAccess ==
    (NonExecutiveCall("project") /\ LookupsAnswer) =>
        IF ObjectId(last.id) \notin DOMAIN projects THEN Failed(404)
        ELSE LET p == projects[ObjectId(last.id)]
             IN  IF last.user \in ({p.pmId, p.apmId, p.teamLeadId} \cup p.teamMembers)
                 THEN Granted ELSE Failed(403)

\* C2: for every resource type a principal whose role is CEO is granted
\* access, whatever the path id, the target and the state of the store.
C2_ExecutiveBypass ==
    (/\ last.gate = "checkResourceAccess"
     /\ last.user # Null
     /\ users[last.user].role = "CEO") => Granted

\* C3: checkResourceAccess('task'), non-executive principal: 404 when no task
\* has the path id; otherwise granted exactly when the principal is the
\* assignee, or the parent project exists and the principal is its pmId, apmId
\* or teamLeadId; with no parent project, exactly when assignee; 403 otherwise.
C3_TaskAccess ==
    (NonExecutiveCall("task") /\ LookupsAnswer) =>
        IF ObjectId(last.id) \notin DOMAIN tasks THEN Failed(404)
        ELSE LET t == tasks[ObjectId(last.id)]
                 manages ==
                     /\ t.projectId \in DOMAIN projects
                     /\ last.user \in {projects[t.projectId].pmId,
                                       projects[t.projectId].apmId,
                                       projects[t.projectId].teamLeadId}
             IN  IF t.assignedTo = last.user \/ manages
                 THEN Granted ELSE Failed(403)

C4_SkipLevelRejected ==
    /\ NonExecutiveCall("user") /\ last.user = 2 /\ last.id = <<4, "lower">>
    /\ users[4].reportsTo = 3 /\ users[3].reportsTo = 2
    /\ Failed(403)
C4_SelfWithoutLookup ==
    /\ NonExecutiveCall("user") /\ last.id = toString(last.user)
    /\ last.db /\ ~last.connected /\ Granted

----------------------------------------------------------------------------
(* The authentication gate *)

NotLoggedIn == AppError("You are not logged in! Please log in to get access.", 401)
Deactivated == AppError("Your account has been deactivated. Please contact support.", 401)
TokenExpired == AppError("Your token has expired. Please log in again.", 401)
InvalidToken == AppError("Invalid token. Please log in again.", 401)

\* the request of the observed protect call carries a bearer token
BearerToken ==
    /\ last.authorization.present
    /\ last.authorization.scheme = "Bearer"
    /\ last.authorization.token # NoToken

\* the token verifies and its subject is looked up
SubjectLookedUp ==
    /\ BearerToken /\ last.secret
    /\ last.authorization.token.kind = "valid"
    /\ last.db /\ last.connected
    /\ ~ObjectIdThrows(last.authorization.token.userId)

Subject == ObjectId(last.authorization.token.userId)

\* what C5 says of the decision, without its last sentence
ProtectDecision ==
    /\ ~BearerToken => last.err = NotLoggedIn
    /\ (SubjectLookedUp /\ Subject \notin DOMAIN users) => Failed(401)
    /\ (SubjectLookedUp /\ Subject \in DOMAIN users /\ ~users[Subject].isActive)
           => last.err = Deactivated
    /\ Granted => /\ BearerToken
                  /\ last.authorization.token.kind = "valid"
                  /\ Subject \in DOMAIN users
                  /\ users[Subject].isActive
                  /\ last.user = Subject
    /\ ~Granted => last.user = Null

\* C5: protect fails 401 'not logged in' without a bearer token, 401 when the
\* subject resolves to no user, 401 'deactivated' for an inactive user, and
\* proceeds, attaching the user, only for a present, verifying token of an
\* existing active user; every failing outcome has status 401 and attaches
\* no principal.
C5_Original ==
    last.gate = "protect" =>
        /\ ProtectDecision
        /\ ~Granted => Failed(401)

\* C5 as amended: the same decision; a failing outcome attaches no principal
\* and has status 401, except that a request carrying a bearer token while
\* JWT_SECRET is not configured fails with 500 'JWT secret not configured'.
C5_Amended ==
    last.gate = "protect" =>
        /\ ProtectDecision
        /\ (BearerToken /\ ~last.secret)
               => last.err = AppError("JWT secret not configured", 500)
        /\ (~Granted /\ ~(BearerToken /\ ~last.secret)) => Failed(401)

C5_Witness ==
    /\ last.gate = "protect" /\ BearerToken /\ ~last.secret
    /\ last.authorization.token.kind = "valid"
    /\ Failed(500) /\ last.user = Null

\* C6: a well-formed, correctly signed but expired token fails with 401 and
\* the 'token expired' message, never with the 'invalid token' message.
C6_ExpiredDistinct ==
    (/\ last.gate = "protect" /\ BearerToken /\ last.secret
     /\ last.authorization.token.kind = "expired")
        => last.err = TokenExpired /\ last.err # InvalidToken

----------------------------------------------------------------------------
(* The role gate *)

\* C7: restrictTo(roles) fails 401 with no principal on the request, 403 when
\* the principal's role is not in roles, and proceeds exactly when a principal
\* is attached and its role is in roles; no role passes a set that does not
\* list it, and the empty set rejects everyone.
C7_RoleGate ==
    last.gate = "restrictTo" =>
        /\ last.user = Null => Failed(401)
        /\ (last.user # Null /\ users[last.user].role \notin last.roles) => Failed(403)
        /\ Granted <=> (last.user # Null /\ users[last.user].role \in last.roles)

C7_Witness ==
    /\ last.gate = "restrictTo" /\ last.user = 1
    /\ last.roles = {"PM", "APM"} /\ Failed(403)

----------------------------------------------------------------------------
(* The rate limiter *)

Allowed  == last.err = NoError
Rejected == last.err # NoError

\* C8: for one client, counting from the creation of its bucket, of the
\* requests issued before the bucket's reset time the first maxRequests are
\* allowed and every later one is rejected with 429; a rejected request leaves
\* the bucket's count and reset time as they were.
C8_WindowLimit ==
    (last.gate = "rateLimit" /\ last.now < last.after.resetTime) =>
        /\ Allowed <=> last.ord <= maxRequests
        /\ Rejected => Failed(429)
        /\ (Rejected /\ last.hadBefore /\ last.now < last.before.resetTime)
               => last.after = last.before

\* the request after the last allowed one, inside the window
C8_Witness ==
    /\ last.gate = "rateLimit" /\ maxRequests = MaxLimit
    /\ last.now > 0 /\ last.now < last.after.resetTime
    /\ last.ord = maxRequests + 1 /\ Failed(429)
    /\ last.hadBefore /\ last.before.count = maxRequests

\* C9: with maxRequests >= 1, a request of a client whose bucket is exhausted,
\* issued at a time t >= the bucket's reset time, is allowed and leaves the
\* client's bucket with count 1 and reset time t + windowMs.
C9_ResetAtWindowEnd ==
    (/\ last.gate = "rateLimit" /\ maxRequests >= 1
     /\ last.hadBefore /\ last.before.count = maxRequests
     /\ last.now >= last.before.resetTime)
        => /\ Allowed
           /\ last.after = [count |-> 1, resetTime |-> last.now + windowMs]

\* C10: whatever the order in which the handlers of the requests in flight
\* run, the requests admitted for a client since its bucket was created are
\* exactly the bucket's count (no increment is lost) and never more than
\* maxRequests.
C10_NoOverAdmission ==
    \A ip \in DOMAIN clients :
        /\ admitted[ip] = clients[ip].count
        /\ admitted[ip] <= maxRequests

\* two requests of one client were in flight together; the limit is reached
C10_Witness ==
    /\ last.gate = "rateLimit" /\ last.concurrent >= 1
    /\ maxRequests >= 2 /\ admitted[last.ip] = maxRequests
    /\ Rejected

----------------------------------------------------------------------------
(* The body validator *)

ValidatedBody == last.gate = "validateBody"

\* a value that is there: not undefined, not null, not the empty string
Present(value) == value \notin {Undefined, JsNull, Str(<<>>)}

\* the value has the declared type
HasType(type, value) ==
    CASE type = "string"  -> value.t = "string"
      [] type = "number"  -> value.t = "number" /\ ~value.nan
      [] type = "boolean" -> value.t = "boolean"
      [] type = "email"   -> value.t = "string" /\ emailRegexTest(value)
      [] type = "date"    -> value.t = "string" /\ dateParses(value)
      [] OTHER            -> TRUE

\* the value matches the rule's pattern, as a match of the whole string
Matches(value) == test(RegExpObj(FALSE), value.s)

\* the checks of one rule that a present value fails, each taken by itself
FailingChecks(rules, value) ==
    {c \in {"type", "minLength", "maxLength", "min", "max", "enum", "pattern"} :
        CASE c = "type"      -> ~HasType(rules.type, value)
          [] c = "minLength" -> /\ Declared(rules.minLength) /\ value.t = "string"
                                /\ Len(value.s) < rules.minLength[1]
          [] c = "maxLength" -> /\ Declared(rules.maxLength) /\ value.t = "string"
                                /\ Len(value.s) > rules.maxLength[1]
          [] c = "min"       -> /\ Declared(rules.min) /\ value.t = "number"
                                /\ ~value.nan /\ value.n < rules.min[1]
          [] c = "max"       -> /\ Declared(rules.max) /\ value.t = "number"
                                /\ ~value.nan /\ value.n > rules.max[1]
          [] c = "enum"      -> Declared(rules.enum) /\ ~includes(rules.enum[1], value)
          [] OTHER           -> /\ Declared(rules.pattern) /\ value.t = "string"
                                /\ ~Matches(value)}

\* every message a rule can give for its field, in the order type, length,
\* range, enum, pattern
MessagesOf(field, rules) ==
    << field \o " is required",
       CASE rules.type = "string"  -> field \o " must be a string"
         [] rules.type = "number"  -> field \o " must be a number"
         [] rules.type = "boolean" -> field \o " must be a boolean"
         [] rules.type = "email"   -> field \o " must be a valid email address"
         [] OTHER                  -> field \o " must be a valid date",
       IF Declared(rules.minLength)
       THEN field \o " must be at least " \o ToString(rules.minLength[1]) \o " characters long"
       ELSE "",
       IF Declared(rules.maxLength)
       THEN field \o " must not exceed " \o ToString(rules.maxLength[1]) \o " characters"
       ELSE "",
       IF Declared(rules.min)
       THEN field \o " must be at least " \o ToString(rules.min[1]) ELSE "",
       IF Declared(rules.max)
       THEN field \o " must not exceed " \o ToString(rules.max[1]) ELSE "",
       IF Declared(rules.enum)
       THEN field \o " must be one of: " \o join(enumNames(rules.enum[1]), ", ") ELSE "",
       field \o " format is invalid" >>

RECURSIVE AllMessages(_)
AllMessages(entries) ==
    IF entries = <<>> THEN <<>>
    ELSE MessagesOf(entries[1].field, entries[1].rules) \o AllMessages(Tail(entries))

\* a is b with some elements left out
RECURSIVE IsSubsequence(_, _)
IsSubsequence(a, b) ==
    IF a = <<>> THEN TRUE
    ELSE IF b = <<>> THEN FALSE
    ELSE IF a[1] = b[1] THEN IsSubsequence(Tail(a), Tail(b))
    ELSE IsSubsequence(a, Tail(b))

RECURSIVE Flatten(_)
Flatten(lists) == IF lists = <<>> THEN <<>> ELSE lists[1] \o Flatten(Tail(lists))

\* C11: the number of violation messages is the number of checks (type,
\* min length, max length, min, max, enum, pattern) that fail on the present
\* fields, plus one per required field that is missing; the messages come in
\* the rule set's field order and, within a field, in the order type, length,
\* range, enum, pattern.
C11_MessagePerFailingCheck ==
    ValidatedBody =>
        /\ \A k \in 1..Len(last.schema) :
              LET rules == last.schema[k].rules
                  value == last.body[last.schema[k].field]
              IN  Len(last.perField[k]) =
                      IF Present(value) THEN Cardinality(FailingChecks(rules, value))
                      ELSE IF rules.required THEN 1 ELSE 0
        /\ last.errors = Flatten(last.perField)
        /\ IsSubsequence(last.errors, AllMessages(last.schema))

\* the payload satisfies every rule of the rule set
Satisfies(entries, body) ==
    \A k \in 1..Len(entries) :
        LET value == body[entries[k].field]
        IN  IF Present(value) THEN FailingChecks(entries[k].rules, value) = {}
            ELSE ~entries[k].rules.required

\* C12: a payload that satisfies every rule is valid; validating the same
\* payload again gives the same outcome and the same messages; the rule set
\* is after the validation what it was before.
C12_Idempotent ==
    ValidatedBody =>
        /\ Satisfies(last.schema, last.body) => last.err = NoError
        /\ collect(schema, last.body) = last.errors
        /\ schema = last.schema

\* C13: a required field whose value is undefined, null or '' gives the one
\* message '<field> is required' and nothing else; such a value of a field
\* that is not required gives no message; 0 and false are values: they are
\* not reported as missing and the rule's other checks apply to them.
C13_Presence ==
    ValidatedBody =>
        \A k \in 1..Len(last.schema) :
            LET field == last.schema[k].field
                rules == last.schema[k].rules
                value == last.body[field]
                said(m) == \E i \in 1..Len(last.perField[k]) : last.perField[k][i] = m
            IN  /\ (value \in {Undefined, JsNull, Str(<<>>)} /\ rules.required)
                       => last.perField[k] = <<field \o " is required">>
                /\ (value \in {Undefined, JsNull, Str(<<>>)} /\ ~rules.required)
                       => last.perField[k] = <<>>
                /\ value \in {Num(0), Bool(FALSE)} =>
                       /\ ~said(field \o " is required")
                       /\ rules.type = "string" => said(field \o " must be a string")
                       /\ (rules.type = "number" /\ value = Bool(FALSE))
                              => said(field \o " must be a number")
                       /\ (rules.min = <<3>> /\ value = Num(0))
                              => said(field \o " must be at least 3")
                       /\ (rules.max = <<-1>> /\ value = Num(0))
                              => said(field \o " must not exceed -1")

\* a required field holding 0 went through the range check
C13_Witness ==
    /\ ValidatedBody
    /\ last.schema[1].rules.required /\ last.schema[1].rules.min = <<3>>
    /\ last.body.name = Num(0)
    /\ last.errors = <<"name must be at least 3">>

\* C14: the request proceeds without error exactly when there is no violation
\* message; otherwise it fails with one error: 400, 'fail', and a message
\* that joins all violation messages in their order.
C14_Outcome ==
    ValidatedBody =>
        IF last.errors = <<>> THEN last.err = NoError
        ELSE /\ last.err.statusCode = 400
             /\ last.err.status = "fail"
             /\ \/ /\ Len(last.errors) = 1
                   /\ last.err.message = "Validation failed: " \o last.errors[1]
                \/ /\ Len(last.errors) = 2
                   /\ last.err.message =
                          "Validation failed: " \o last.errors[1] \o "; " \o last.errors[2]
                \/ /\ Len(last.errors) > 2
                   /\ last.err.message = "Validation failed: " \o join(last.errors, "; ")

\* one violation only, and the request failed
C14_Witness ==
    /\ ValidatedBody
    /\ last.errors = <<"name is required">>
    /\ last.err.message = "Validation failed: name is required"
    /\ last.err.statusCode = 400

----------------------------------------------------------------------------
(* The identifier validator *)

\* a string of exactly 24 characters, each a hexadecimal digit
IsObjectIdString(value) ==
    /\ value.t = "string"
    /\ Len(value.s) = 24
    /\ \A k \in 1..Len(value.s) :
           value.s[k] \in {"0","1","2","3","4","5","6","7","8","9",
                           "a","b","c","d","e","f","A","B","C","D","E","F"}

\* C15: validateObjectId(paramName) proceeds exactly when the path parameter
\* is a string of 24 hexadecimal digits; every other value, a missing or
\* empty one included, fails with 400 and 'Invalid <paramName> format'.
C15_ObjectIdFormat ==
    last.gate = "validateObjectId" =>
        IF IsObjectIdString(last.id) THEN last.err = NoError
        ELSE /\ last.err.statusCode = 400
             /\ last.err.status = "fail"
             /\ last.err.message = "Invalid " \o last.paramName \o " format"

\* 25 hexadecimal digits are rejected
C15_Witness ==
    /\ last.gate = "validateObjectId"
    /\ last.paramName = "projectId"
    /\ last.id.t = "string" /\ Len(last.id.s) = 25
    /\ \A k \in 1..25 : last.id.s[k] = "F"
    /\ last.err.statusCode = 400

----------------------------------------------------------------------------
(* The error normalizer *)

Normalized == last.gate = "errorHandler"
Verbose    == last.env = "development"

\* a duplicate-key error as the driver raises it
DuplicateKey ==
    /\ Normalized
    /\ last.err.code = 11000
    /\ last.err.name = "MongoServerError"

AlreadyExists ==
    /\ last.response.statusCode = 400
    /\ last.response.message =
           last.err.keyValue.field \o " '" \o last.err.keyValue.value
               \o "' already exists. Please choose another value."

\* the status code the error carries, 500 when it carries none
OwnStatusCode == IF last.err.statusCode = 0 THEN 500 ELSE last.err.statusCode

\* C16 as stated: in the verbose and in the minimal mode a duplicate-key error
\* on field f with value v is answered with 400 and a message that holds f, v
\* and 'already exists'.
C16_Original == DuplicateKey => AlreadyExists

\* C16: in the minimal mode a duplicate-key error on field f with value v is
\* answered with 400 and the message "f 'v' already exists. ..."; in the
\* verbose mode it is answered as it came: its own message, its own status
\* code or 500.
C16_Amended ==
    DuplicateKey =>
        IF Verbose
        THEN /\ last.response.statusCode = OwnStatusCode
             /\ last.response.message = last.err.message
             /\ last.response.detail
        ELSE AlreadyExists /\ last.response.status = "fail" /\ ~last.response.detail

\* a duplicate e-mail in production
C16_Witness ==
    /\ DuplicateKey /\ last.env = "production"
    /\ last.err.keyValue.field = "email" /\ last.err.statusCode = 0
    /\ last.response.statusCode = 400

\* the error matches none of the patterns the normalizer knows
Unmatched ==
    /\ last.err.code # 11000
    /\ last.err.name \notin {"ValidationError", "JsonWebTokenError", "TokenExpiredError"}

\* C17: in the minimal mode every non-operational error that matches no known
\* pattern gets the same response, 500 / 'error' / 'Something went wrong!',
\* whatever its message, status code or other fields; an operational error
\* gets its own message and status code.
C17_Minimal ==
    (Normalized /\ ~Verbose /\ Unmatched) =>
        IF last.err.isOperational
        THEN /\ last.response.message = last.err.message
             /\ last.response.statusCode = OwnStatusCode
             /\ ~last.response.detail
        ELSE last.response = [statusCode |-> 500, status |-> "error",
                              message |-> "Something went wrong!", detail |-> FALSE]

\* a non-operational error carrying 404 and a driver message
C17_Witness ==
    /\ Normalized /\ last.env = "production" /\ Unmatched
    /\ ~last.err.isOperational
    /\ last.err.statusCode = 404 /\ last.err.status = "fail"
    /\ last.err.message = "connect ECONNREFUSED 127.0.0.1:27017"
    /\ last.response.statusCode = 500

\* C18 as stated: every non-operational error that reaches the normalizer is
\* logged, in the verbose mode as in the minimal mode.
C18_Original == (Normalized /\ ~last.err.isOperational) => last.logged

\* C18: the normalizer logs an error exactly when the mode is minimal and the
\* error is non-operational and matches no known pattern; in the verbose mode
\* it logs nothing.
C18_Amended ==
    Normalized => (last.logged <=> (~Verbose /\ ~last.err.isOperational /\ Unmatched))

\* a non-operational error logged outside development
C18_Witness ==
    /\ Normalized /\ last.env = "test" /\ Unmatched
    /\ ~last.err.isOperational /\ last.err.name = "MongoServerError"
    /\ last.logged

\* the gate met an unexpected failure: the handle is missing, or a lookup
\* it needs is rejected
AccessLookupFailed ==
    /\ last.gate = "checkResourceAccess" /\ last.user # Null
    /\ \/ ~last.db
       \/ /\ users[last.user].role # "CEO"
          /\ last.resourceType \in {"project", "task"}
          /\ ~last.connected

\* C19 as stated: an unexpected failure in checkResourceAccess surfaces as
\* 500 'Error checking resource access'; that error's operational flag is
\* false, and the normalizer in the minimal mode answers it with the generic
\* message.
C19_Original ==
    AccessLookupFailed =>
        /\ last.err.statusCode = 500
        /\ last.err.message = "Error checking resource access"
        /\ ~last.err.isOperational
        /\ errorHandlerOutcome(Thrown(last.err), "production").response.message
               = "Something went wrong!"

\* C19: an unexpected failure in checkResourceAccess surfaces as 500 'Error
\* checking resource access'; that error's operational flag is true, and the
\* normalizer in the minimal mode answers it with 500, 'error' and this very
\* message, without logging it.
C19_Amended ==
    AccessLookupFailed =>
        /\ last.err.statusCode = 500
        /\ last.err.message = "Error checking resource access"
        /\ last.err.isOperational
        /\ errorHandlerOutcome(Thrown(last.err), "production") =
               [response |-> [statusCode |-> 500, status |-> "error",
                              message |-> "Error checking resource access",
                              detail |-> FALSE],
                logged |-> FALSE]

\* a non-executive principal, no database handle
C19_Witness ==
    /\ AccessLookupFailed
    /\ last.user = 4 /\ ~last.db /\ last.resourceType = "user"
    /\ last.err.statusCode = 500

----------------------------------------------------------------------------
(* The rate limiter's headers *)

HeadersOfAdmitted ==
    /\ last.headers.set
    /\ last.headers.limit = maxRequests
    /\ last.headers.remaining = maxRequests - last.after.count
    /\ last.headers.remaining \in 0..(maxRequests - 1)
    /\ last.headers.reset = last.after.resetTime

\* C20 as stated: every request the rate limiter decides on, a rejected one
\* included, gets the X-RateLimit-* headers; on an allowed request Limit is
\* maxRequests and Remaining is maxRequests minus the count after the
\* increment, a value in 0..maxRequests-1.
C20_Original ==
    last.gate = "rateLimit" =>
        /\ last.headers.set
        /\ Allowed => HeadersOfAdmitted

\* C20: every allowed request gets the X-RateLimit-* headers, Limit being
\* maxRequests and Remaining maxRequests minus the count after the increment,
\* a value in 0..maxRequests-1; a request rejected with 429 gets none of them.
C20_Amended ==
    last.gate = "rateLimit" =>
        IF Allowed THEN HeadersOfAdmitted ELSE last.headers = NoHeaders

\* the last allowed request of a window: Remaining is 0
C20_Witness ==
    /\ last.gate = "rateLimit" /\ Allowed
    /\ maxRequests = MaxLimit /\ last.after.count = maxRequests
    /\ last.headers.remaining = 0

----------------------------------------------------------------------------
(* The pipeline *)

Gates == {"rateLimit", "protect", "restrictTo", "checkResourceAccess",
          "validateBody", "validateObjectId", "notFound"}

\* the calls of next made so far for the request, and those without an error
Calls == Len(req.trace)
AllProceeded == \A k \in 1..Calls : req.trace[k].err = NoError

\* an error in the normalized shape: a status code, its classification, a
\* message, the operational flag
IsNormalizedError(err) ==
    /\ err.statusCode \in {400, 401, 403, 404, 429, 500}
    /\ err.status = (IF err.statusCode < 500 THEN "fail" ELSE "error")
    /\ err.message # ""
    /\ err.isOperational

\* C21: every gate a request has gone through called next exactly once, with
\* an error or with nothing (the k-th call is the call of the k-th gate of
\* the route, and the gate that is running has not called yet); the business
\* handler is reached only when every gate of the route proceeded; a gate's
\* error reaches the error handler as it was given, and the response carries
\* its status code.
C21_Propagation ==
    /\ \A k \in 1..Calls : req.trace[k].gate = req.route[k]
    /\ \A k \in 1..(Calls - 1) : req.trace[k].err = NoError
    /\ req.stage \in Gates =>
           /\ req.stage = req.route[req.pos]
           /\ Calls = req.pos - 1
           /\ AllProceeded
    /\ req.stage = "handler" => (Calls = Len(req.route) /\ AllProceeded)
    /\ req.stage = "errorHandler" =>
           /\ Calls = req.pos
           /\ req.trace[Calls].err # NoError
           /\ req.err = req.trace[Calls].err
           /\ IsNormalizedError(req.err)
    /\ req.stage = "sent" =>
           IF req.response.statusCode = 200
           THEN Calls = Len(req.route) /\ AllProceeded
           ELSE /\ ~AllProceeded
                /\ req.response.statusCode = req.trace[Calls].err.statusCode

\* the third gate of a route refused: the handler is not reached
C21_Witness ==
    /\ req.stage = "sent"
    /\ Calls = 3
    /\ req.trace[1] = [gate |-> "rateLimit", err |-> NoError]
    /\ req.trace[2] = [gate |-> "protect", err |-> NoError]
    /\ req.trace[3].gate = "checkResourceAccess"
    /\ req.trace[3].err.statusCode = 404
    /\ req.response.statusCode = 404

----------------------------------------------------------------------------
(* The rate limiter's buckets *)

\* the least number of whole seconds that covers ms milliseconds
SecondsCovering(ms) ==
    CHOOSE n \in 0..(MaxTime + 2000) : n * 1000 >= ms /\ (n - 1) * 1000 < ms

\* C22: in every invocation of the rate limiter at time now, by client c: a
\* bucket is created for c only; afterwards no bucket has a reset time < now;
\* a bucket whose reset time is >= now stays, with the same reset time; every
\* count is in 0..maxRequests; and the seconds of a 429 message are
\* ceil((resetTime - now) / 1000), never negative.
C22_BucketLifecycle ==
    [][last'.gate = "rateLimit" =>
          /\ (DOMAIN clients') \ (DOMAIN clients) \subseteq {last'.ip}
          /\ \A i \in DOMAIN clients' :
                 /\ clients'[i].resetTime >= now
                 /\ clients'[i].count \in 0..maxRequests
          /\ \A i \in DOMAIN clients :
                 clients[i].resetTime >= now =>
                     /\ i \in DOMAIN clients'
                     /\ clients'[i].resetTime = clients[i].resetTime
          /\ last'.err # NoError =>
                 /\ clients'[last'.ip].resetTime - now >= 0
                 /\ last'.err.message =
                        "Too many requests. Try again in "
                            \o ToString(SecondsCovering(clients'[last'.ip].resetTime - now))
                            \o " seconds."
    ]_vars

\* a rejection half a second before the reset, the other client's bucket alive
C22_Witness ==
    /\ last.gate = "rateLimit" /\ Rejected
    /\ last.after.resetTime - last.now = 500
    /\ last.err.message = "Too many requests. Try again in 1 seconds."
    /\ Cardinality(DOMAIN clients) = 2

----------------------------------------------------------------------------
(* The body validator's bounds *)

\* C23: for a present string, a declared minLength above its length gives
\* '<field> must be at least <n> characters long' and a declared maxLength
\* (0 included) below its length gives '<field> must not exceed <n>
\* characters'; for a present number, a declared min above it or max below it
\* (0 and negative bounds included) gives the range message; a bound that is
\* not declared gives no such message.
C23_Bounds ==
    ValidatedBody =>
        \A k \in 1..Len(last.schema) :
            LET field == last.schema[k].field
                rules == last.schema[k].rules
                value == last.body[field]
                said(m) == \E i \in 1..Len(last.perField[k]) : last.perField[k][i] = m
                atLeastChars(n) == field \o " must be at least " \o ToString(n)
                                       \o " characters long"
                atMostChars(n)  == field \o " must not exceed " \o ToString(n)
                                       \o " characters"
                atLeast(n) == field \o " must be at least " \o ToString(n)
                atMost(n)  == field \o " must not exceed " \o ToString(n)
            IN  /\ (Present(value) /\ value.t = "string") =>
                    /\ IF Declared(rules.minLength)
                       THEN Len(value.s) < rules.minLength[1]
                                <=> said(atLeastChars(rules.minLength[1]))
                       ELSE \A n \in 0..3 : ~said(atLeastChars(n))
                    /\ IF Declared(rules.maxLength)
                       THEN Len(value.s) > rules.maxLength[1]
                                <=> said(atMostChars(rules.maxLength[1]))
                       ELSE \A n \in 0..3 : ~said(atMostChars(n))
                /\ (Present(value) /\ value.t = "number" /\ ~value.nan) =>
                    /\ IF Declared(rules.min)
                       THEN value.n < rules.min[1] <=> said(atLeast(rules.min[1]))
                       ELSE \A n \in -1..3 : ~said(atLeast(n))
                    /\ IF Declared(rules.max)
                       THEN value.n > rules.max[1] <=> said(atMost(rules.max[1]))
                       ELSE \A n \in -1..3 : ~said(atMost(n))

----------------------------------------------------------------------------
(* The error normalizer's classification *)

Classification(statusCode) == IF statusCode \in 400..499 THEN "fail" ELSE "error"

\* the error carries no classification of its own, or the one of its status code
ConsistentError ==
    \/ last.err.status = ""
    \/ last.err.statusCode # 0 /\ last.err.status = Classification(last.err.statusCode)

\* C24: every response of the error normalizer, in either mode, is
\* classified 'fail' when its status code is 4xx and 'error' when it is 5xx;
\* an error that matches no known pattern and carries no status code is
\* answered with 500 and 'error'.
C24_Classification ==
    (Normalized /\ ConsistentError) =>
        /\ last.response.statusCode \in 400..599
        /\ last.response.status = Classification(last.response.statusCode)
        /\ (Unmatched /\ last.err.statusCode = 0) =>
               /\ last.response.statusCode = 500
               /\ last.response.status = "error"

----------------------------------------------------------------------------
(* What the gates leave alone *)

ReadOnlyGates == {"protect", "restrictTo", "checkResourceAccess",
                  "validateBody", "validateObjectId"}

\* C25: a step of the authentication gate, the role gate, the resource-access
\* gate, the schema validator or the identifier format checker changes neither
\* the bucket map, nor the user, project and task records, nor the rule set,
\* nor the request's payload; the request's principal changes only when
\* protect proceeds; any change of the bucket map is a rate limiter's step.
C25_Frame ==
    [][ /\ req.stage \in ReadOnlyGates =>
            /\ clients' = clients
            /\ users' = users /\ projects' = projects /\ tasks' = tasks
            /\ schema' = schema
            /\ req'.body = req.body /\ req'.id = req.id
            /\ req'.user # req.user =>
                   (req.stage = "protect" /\ req'.stage # "errorHandler")
        /\ clients' # clients => req.stage = "rateLimit"
      ]_vars

----------------------------------------------------------------------------
(* The database handle *)

\* C26: getDB and getClient hand out a handle only while the connection is
\* established: before the first connectDB, after a connectDB that failed (at
\* connect or at the ping) and after closeDB they throw; after a connectDB
\* that completed, a failure of the index creation included, they return.
C26_HandleState ==
    /\ ~client => (getDBThrows /\ getClientThrows)
    /\ last.gate = "closeDB" => (getDBThrows /\ getClientThrows)
    /\ last.gate = "connectDB" =>
           /\ getDBThrows <=> last.thrown
           /\ getClientThrows <=> last.thrown

----------------------------------------------------------------------------
(* The client's authentication state *)

\* a loginStart was dispatched and no loginSuccess or loginFailure after it
LoginPending ==
    \E i \in 1..Len(dispatched) :
        /\ dispatched[i].type = "loginStart"
        /\ \A j \in (i + 1)..Len(dispatched) :
               dispatched[j].type \notin {"loginSuccess", "loginFailure"}

\* C27: after any sequence of loginStart, loginSuccess, loginFailure and
\* logout from the initial state, isAuthenticated is true exactly when user
\* is non-null, a non-null error implies not authenticated, and loading is
\* true only if a loginStart was dispatched with no loginSuccess or
\* loginFailure after it.
C27_AuthSlice ==
    /\ auth.isAuthenticated <=> auth.user # Null
    /\ auth.error # <<>> => ~auth.isAuthenticated
    /\ auth.loading => LoginPending

\* all four actions dispatched: a login, a failed one, a third one started and
\* a logout while it is pending, which leaves loading set
C27_Witness ==
    /\ Len(dispatched) = 4
    /\ dispatched[1].type = "loginSuccess"
    /\ dispatched[2].type = "loginFailure"
    /\ dispatched[3].type = "loginStart"
    /\ dispatched[4].type = "logout"
    /\ auth.loading /\ ~auth.isAuthenticated /\ auth.user = Null /\ auth.error = <<>>

====
